---------------------------- MODULE Spec2Model ----------------------------
(***************************************************************************)
(* A model of the VST3 host library (src/lib/vst3_host.cpp): the C API     *)
(* vst3_load_plugin .. vst3_unload_plugin over one VST3Plugin instance,    *)
(* together with the plugin-side objects (component, processor,           *)
(* controller) whose answers the host code branches on.  Every answer of   *)
(* the plugin binary is an input drawn from a small set.                   *)
(***************************************************************************)
EXTENDS Integers, Sequences, FiniteSets, TLC

(***************************************************************************)
(* Bounds of the model.                                                    *)
(***************************************************************************)
\* events the control side submits over one behaviour
MaxEvents == 3
\* entries the plugin writes into the output queues over one behaviour
MaxOut == 1
\* processor->setupProcessing / processData.prepare calls that are counted
MaxSetup == 2

(***************************************************************************)
(* Program constants.                                                      *)
(***************************************************************************)
\* velocity / 127.0f
VelocityScale == 127
\* pcEvent.midiCCOut.controlNumber = 32
ProgramChangeCC == 32
\* event.noteOn.noteId = -1
NoNoteId == -1

(***************************************************************************)
(* Input domains.                                                          *)
(***************************************************************************)
Paths == {"null", "bad", "good"}
Categories == {"Audio Module Class", "Component Controller Class"}
kVstAudioEffectClass == "Audio Module Class"
\* the class lists a factory may expose (a class is named by its position)
ClassLists ==
    {<<>>} \cup [1..1 -> Categories] \cup [1..2 -> Categories]
\* channel counts a bus may report
ChannelCounts == {2}
\* (sample_rate, max_samples_per_block) pairs the caller configures
Setups == {<<44100, 64>>, <<48000, 128>>}
\* channel counts the caller passes to vst3_process
SuppliedChannels == {0, 1, 3}
\* sample counts the caller passes to vst3_process
NumSamples == {64}
Channels == {0}
Notes == {60}
Velocities == {127}
Controllers == {7}
Values == {5}
\* channels and program numbers of program-change requests
ProgramChannels == {0, 1}
Programs == {5, 9}
\* sample offsets of note-on and program-change requests ...
Offsets == {0, 10}
\* ... and of note-off and control-change requests
LateOffsets == {10}
ParamIds == {1, 2}
\* normalized parameter values in tenths (0.0, 0.5, 1.0)
ParamValues == {0, 5, 10}

VARIABLES
    handle,        \* the caller's VST3Plugin*: "null", "valid" or "dangling"
    gHostContext,  \* the process-wide host context exists
    plugin,        \* the fields of the VST3Plugin the handle points to
    plug,          \* the state of the plugin-side objects
    lastOp,        \* the API function that ran last
    args,          \* the arguments it was called with
    ret,           \* what it returned
    callLog,       \* the calls it made on the plugin, in order, with status
    nextId,        \* number of events submitted so far
    shown,         \* per event: how many plugin process calls saw it
    dropped,       \* events cleared from the input queue
    fault,         \* a freed VST3Plugin was read or freed again
    pc             \* position of the audio thread inside vst3_process

vars == <<handle, gHostContext, plugin, plug, lastOp, args, ret, callLog,
          nextId, shown, dropped, fault, pc>>

(***************************************************************************)
(* struct VST3Plugin, and HostProcessData inside it.                       *)
(***************************************************************************)
NoModule == [loaded |-> FALSE, classes |-> <<>>]

NoBus == [numChannels |-> 0, bound |-> {}]

\* HostProcessData as default-constructed
NoProcessData ==
    [prepares |-> 0, numSamples |-> 0, numInputs |-> 0, numOutputs |-> 0,
     inputs |-> NoBus, outputs |-> NoBus,
     attached |-> FALSE]

VST3Plugin ==
    [module |-> NoModule, component |-> FALSE, processor |-> FALSE,
     controller |-> FALSE, num_inputs |-> 0, num_outputs |-> 0,
     sample_rate |-> 0, max_block_size |-> 0,
     processData |-> NoProcessData,
     inputParameterChanges |-> 0, outputParameterChanges |-> 0,
     inputEvents |-> <<>>, outputEvents |-> 0]

(***************************************************************************)
(* The plugin-side objects: what the binary's component, processor and     *)
(* controller have been told so far.                                       *)
(***************************************************************************)
NoPlug ==
    [compClass |-> 0, compInit |-> FALSE, ctrlInit |-> FALSE,
     compCP |-> FALSE, ctrlCP |-> FALSE,
     connAB |-> FALSE, connBA |-> FALSE,
     inCh |-> 0, outCh |-> 0,
     active |-> FALSE, processing |-> FALSE,
     setups |-> 0,
     compTerminates |-> 0, ctrlTerminates |-> 0, moduleReleases |-> 0,
     params |-> [p \in ParamIds |-> 0]]

Call(name, ok) == <<name, ok>>

Min(a, b) == IF a < b THEN a ELSE b


(***************************************************************************)
(* vst3_load_plugin.  The answers of the binary during one load.           *)
(***************************************************************************)
LoadEnvFields ==
    [classes : ClassLists,
     createOk : BOOLEAN, initOk : BOOLEAN, hasProcessor : BOOLEAN,
     cidOk : BOOLEAN, ctrlCreateOk : BOOLEAN, ctrlInitOk : BOOLEAN,
     compCP : BOOLEAN, ctrlCP : BOOLEAN,
     connABOk : BOOLEAN, connBAOk : BOOLEAN,
     inCh : {0} \cup ChannelCounts, inInfoOk : BOOLEAN,
     outCh : {0} \cup ChannelCounts, outInfoOk : BOOLEAN]

\* the loop of lines 81-88: the position of the first class whose category
\* is kVstAudioEffectClass, scanning from position i; 0 when there is none
RECURSIVE ScanClasses(_, _)
ScanClasses(classes, i) ==
    IF i > Len(classes) THEN 0
    ELSE IF classes[i] = kVstAudioEffectClass THEN i
    ELSE ScanClasses(classes, i + 1)

\* a scan that keeps the last audio effect class instead of stopping at the
\* first
FindLastAudioEffectClass(classes) ==
    LET audio == {i \in DOMAIN classes : classes[i] = kVstAudioEffectClass}
    IN  IF audio = {} THEN 0
        ELSE CHOOSE i \in audio : \A j \in audio : j <= i

FindAudioEffectClass(classes) == ScanClasses(classes, 1)

\* LoadStage with a missing controller treated as fatal
LoadStageControllerFatal(path, env) ==
    IF path = "null" THEN "nullpath"
    ELSE IF path = "bad" THEN "module"
    ELSE IF FindAudioEffectClass(env.classes) = 0 THEN "noclass"
    ELSE IF ~env.createOk THEN "create"
    ELSE IF ~env.initOk THEN "init"
    ELSE IF ~env.hasProcessor THEN "processor"
    ELSE IF ~(env.cidOk /\ env.ctrlCreateOk /\ env.ctrlInitOk) THEN "controller"
    ELSE "ok"

\* where vst3_load_plugin returns: one of its six fatal exits, or "ok"
LoadStage(path, env) ==
    IF path = "null" THEN "nullpath"
    ELSE IF path = "bad" THEN "module"
    ELSE IF FindAudioEffectClass(env.classes) = 0 THEN "noclass"
    ELSE IF ~env.createOk THEN "create"
    ELSE IF ~env.initOk THEN "init"
    ELSE IF ~env.hasProcessor THEN "processor"
    ELSE "ok"

\* the controller kept in plugin->controller (lines 128-131)
LoadController(env) == env.cidOk /\ env.ctrlCreateOk

\* lines 135-141: both objects are asked for IConnectionPoint and connected
\* both ways when both support it
LoadConnects(env) == LoadController(env) /\ env.compCP /\ env.ctrlCP

\* the calls of lines 127-143
ControllerCalls(env) ==
    <<Call("component.getControllerClassId", env.cidOk)>>
    \o (IF env.cidOk
        THEN <<Call("createInstance<IEditController>", env.ctrlCreateOk)>>
        ELSE <<>>)
    \o (IF LoadController(env)
        THEN <<Call("controller.initialize", env.ctrlInitOk),
               Call("component.queryInterface<IConnectionPoint>", env.compCP),
               Call("controller.queryInterface<IConnectionPoint>", env.ctrlCP)>>
        ELSE <<>>)
    \o (IF LoadConnects(env)
        THEN <<Call("component.connect", env.connABOk),
               Call("controller.connect", env.connBAOk)>>
        ELSE <<>>)

\* the calls of lines 145-162
BusCalls(env) ==
    <<Call("component.getBusCount", TRUE), Call("component.getBusCount", TRUE)>>
    \o (IF env.inCh > 0
        THEN <<Call("component.getBusInfo", env.inInfoOk)>> ELSE <<>>)
    \o (IF env.outCh > 0
        THEN <<Call("component.getBusInfo", env.outInfoOk)>> ELSE <<>>)

\* LoadCalls with the controller set up as soon as the component is
\* initialized, before the component is asked for its processor
LoadCallsControllerFirst(path, env) ==
    LET found == FindAudioEffectClass(env.classes) > 0 IN
    IF path = "null" THEN <<>>
    ELSE IF path = "bad" THEN <<Call("Module::create", FALSE)>>
    ELSE <<Call("Module::create", TRUE), Call("factory.classInfos", found)>>
         \o (IF found
             THEN <<Call("createInstance<IComponent>", env.createOk)>>
             ELSE <<>>)
         \o (IF found /\ env.createOk
             THEN <<Call("component.initialize", env.initOk)>> ELSE <<>>)
         \o (IF found /\ env.createOk /\ env.initOk
             THEN ControllerCalls(env)
                  \o <<Call("component.queryInterface<IAudioProcessor>",
                            env.hasProcessor)>>
                  \o (IF env.hasProcessor THEN BusCalls(env)
                      ELSE <<Call("component.terminate", TRUE)>>)
             ELSE <<>>)

\* LoadCalls with the component terminated on every exit after its creation
LoadCallsTerminateOnInitFailure(path, env) ==
    LET found == FindAudioEffectClass(env.classes) > 0 IN
    IF path = "null" THEN <<>>
    ELSE IF path = "bad" THEN <<Call("Module::create", FALSE)>>
    ELSE <<Call("Module::create", TRUE), Call("factory.classInfos", found)>>
         \o (IF found
             THEN <<Call("createInstance<IComponent>", env.createOk)>>
             ELSE <<>>)
         \o (IF found /\ env.createOk
             THEN <<Call("component.initialize", env.initOk)>> ELSE <<>>)
         \o (IF found /\ env.createOk /\ env.initOk
             THEN <<Call("component.queryInterface<IAudioProcessor>",
                         env.hasProcessor)>>
             ELSE <<>>)
         \o (IF found /\ env.createOk /\ ~(env.initOk /\ env.hasProcessor)
             THEN <<Call("component.terminate", TRUE)>>
             ELSE <<>>)
         \o (IF found /\ env.createOk /\ env.initOk /\ env.hasProcessor
             THEN ControllerCalls(env) \o BusCalls(env)
             ELSE <<>>)

\* every call vst3_load_plugin makes on the module and its objects, each with
\* the answer it got; a fatal answer is the last call but for the terminate
\* of line 122
LoadCalls(path, env) ==
    LET found == FindAudioEffectClass(env.classes) > 0
        afterProcessor ==
            IF env.hasProcessor THEN ControllerCalls(env) \o BusCalls(env)
            ELSE <<Call("component.terminate", TRUE)>>
        afterInit ==
            IF env.initOk
            THEN <<Call("component.queryInterface<IAudioProcessor>",
                        env.hasProcessor)>> \o afterProcessor
            ELSE <<>>
        afterCreate ==
            IF env.createOk
            THEN <<Call("component.initialize", env.initOk)>> \o afterInit
            ELSE <<>>
        afterFind ==
            IF found
            THEN <<Call("createInstance<IComponent>", env.createOk)>>
                 \o afterCreate
            ELSE <<>>
        afterModule ==
            IF path = "good"
            THEN <<Call("factory.classInfos", found)>> \o afterFind
            ELSE <<>>
    IN  IF path = "null" THEN <<>>
        ELSE <<Call("Module::create", path = "good")>> \o afterModule

\* the VST3Plugin a successful load returns
LoadedPlugin(env) ==
    [VST3Plugin EXCEPT
        !.module = [loaded |-> TRUE, classes |-> env.classes],
        !.component = TRUE,
        !.processor = TRUE,
        !.controller = LoadController(env),
        !.num_inputs = IF env.inCh > 0 /\ env.inInfoOk THEN env.inCh ELSE 0,
        !.num_outputs = IF env.outCh > 0 /\ env.outInfoOk THEN env.outCh
                        ELSE 0]

\* the plugin-side objects after the load
LoadedPlug(path, env) ==
    LET stage == LoadStage(path, env)
        ok == stage = "ok"
    IN  [NoPlug EXCEPT
            !.compClass = IF stage \in {"init", "processor", "ok"}
                          THEN FindAudioEffectClass(env.classes) ELSE 0,
            !.compInit = stage \in {"processor", "ok"},
            !.compTerminates = IF stage = "processor" THEN 1 ELSE 0,
            !.moduleReleases = IF stage \in {"create", "init", "processor"}
                               THEN 1 ELSE 0,
            !.ctrlInit = ok /\ LoadController(env) /\ env.ctrlInitOk,
            !.compCP = ok /\ env.compCP,
            !.ctrlCP = ok /\ LoadController(env) /\ env.ctrlCP,
            !.connAB = ok /\ LoadConnects(env) /\ env.connABOk,
            !.connBA = ok /\ LoadConnects(env) /\ env.connBAOk,
            !.inCh = IF ok THEN env.inCh ELSE 0,
            !.outCh = IF ok THEN env.outCh ELSE 0]

\* one representative per distinguishable load: answers the code never asks
\* for are fixed
DefaultEnv ==
    [classes |-> <<>>, createOk |-> TRUE, initOk |-> TRUE,
     hasProcessor |-> TRUE, cidOk |-> TRUE, ctrlCreateOk |-> TRUE,
     ctrlInitOk |-> TRUE, compCP |-> TRUE, ctrlCP |-> TRUE,
     connABOk |-> TRUE, connBAOk |-> TRUE,
     inCh |-> 0, inInfoOk |-> TRUE, outCh |-> 0, outInfoOk |-> TRUE]

Asked(env) ==
    LET found == FindAudioEffectClass(env.classes) > 0
        created == found /\ env.createOk
        initialized == created /\ env.initOk
        loaded == initialized /\ env.hasProcessor
    IN  /\ found \/ env.createOk
        /\ created \/ env.initOk
        /\ initialized \/ env.hasProcessor
        /\ loaded \/ env.cidOk
        /\ (loaded /\ env.cidOk) \/ env.ctrlCreateOk
        /\ (loaded /\ LoadController(env))
              \/ (env.ctrlInitOk /\ env.compCP /\ env.ctrlCP)
        /\ (loaded /\ LoadConnects(env))
              \/ (env.connABOk /\ env.connBAOk)
        /\ loaded \/ (env.inCh = 0 /\ env.outCh = 0)
        /\ (loaded /\ env.inCh > 0) \/ env.inInfoOk
        /\ (loaded /\ env.outCh > 0) \/ env.outInfoOk

LoadEnvs == {env \in LoadEnvFields : Asked(env)}

\* everything vst3_load_plugin leaves behind when it returns
LoadOutcome(path, env) ==
    LET stage == LoadStage(path, env) IN
    [handle |-> IF stage = "ok" THEN "valid" ELSE "null",
     plugin |-> IF stage = "ok" THEN LoadedPlugin(env) ELSE VST3Plugin,
     plug |-> LoadedPlug(path, env),
     ret |-> IF stage = "ok" THEN 1 ELSE 0,
     calls |-> LoadCalls(path, env)]

\* what a call leaves for its caller: the operation, its arguments, its result
\* and the plugin calls it made
ReturnsFor(op, a, r, calls) ==
    /\ lastOp' = op
    /\ args' = a
    /\ ret' = r
    /\ callLog' = calls

Returns(op, r, calls) == ReturnsFor(op, <<>>, r, calls)

vst3_load_plugin ==
    /\ handle = "null"
    /\ pc = "idle"
    /\ \E path \in Paths, env \in LoadEnvs :
         LET out == LoadOutcome(path, env) IN
         /\ path = "good" \/ env = DefaultEnv
         /\ handle' = out.handle
         /\ gHostContext' = (gHostContext \/ path # "null")
         /\ plugin' = out.plugin
         /\ plug' = out.plug
         /\ ReturnsFor("load", <<path>>, out.ret, out.calls)
    /\ UNCHANGED <<nextId, shown, dropped, fault, pc>>

(***************************************************************************)
(* Calls on a null handle: every function returns its sentinel at once.    *)
(***************************************************************************)
NullCall(op, r) ==
    /\ handle = "null"
    /\ Returns(op, r, <<>>)
    /\ UNCHANGED <<handle, gHostContext, plugin, plug, nextId, shown, dropped,
                   fault, pc>>

(***************************************************************************)
(* vst3_setup_processing                                                   *)
(***************************************************************************)
\* lines 274-281: the buses activated before the setup is applied
ActivateBusCalls(p) ==
    (IF p.num_inputs > 0 THEN <<Call("component.activateBus", TRUE)>>
     ELSE <<>>)
    \o (IF p.num_outputs > 0 THEN <<Call("component.activateBus", TRUE)>>
        ELSE <<>>)

\* HostProcessData::prepare: one AudioBusBuffers per audio bus of the
\* component, with the bus's channel count
Prepare(pd, g) ==
    [pd EXCEPT
        !.prepares = @ + 1,
        !.numInputs = IF g.inCh > 0 THEN 1 ELSE 0,
        !.numOutputs = IF g.outCh > 0 THEN 1 ELSE 0,
        !.inputs = [numChannels |-> g.inCh, bound |-> {}],
        !.outputs = [numChannels |-> g.outCh, bound |-> {}]]

\* the VST3Plugin after vst3_setup_processing(sample_rate, max_samples),
\* the processor answering setupOk
SetupPlugin(p, g, setup, setupOk) ==
    LET cached == [p EXCEPT !.sample_rate = setup[1],
                            !.max_block_size = setup[2]]
    IN  IF setupOk
        THEN [cached EXCEPT !.processData = Prepare(@, g)]
        ELSE cached

vst3_setup_processing ==
    /\ pc = "idle"
    /\ \/ NullCall("setup_processing", -1)
       \/ /\ handle = "valid"
          /\ plugin.processData.prepares < MaxSetup
          /\ \E setup \in Setups, setupOk \in BOOLEAN :
               /\ plugin' = SetupPlugin(plugin, plug, setup, setupOk)
               /\ plug' = [plug EXCEPT
                              !.setups = IF setupOk THEN @ + 1 ELSE @]
               /\ ReturnsFor("setup_processing", setup,
                             IF setupOk THEN 0 ELSE -1,
                          ActivateBusCalls(plugin)
                          \o <<Call("processor.setupProcessing", setupOk)>>)
          /\ UNCHANGED <<handle, gHostContext, nextId, shown, dropped, fault,
                         pc>>

(***************************************************************************)
(* vst3_set_active                                                         *)
(***************************************************************************)
\* a vst3_set_active that deactivates the component before it stops the
\* processing
SetActiveCallsComponentFirst(active, compOk, procOk) ==
    IF active
    THEN <<Call("component.setActive(true)", compOk)>>
         \o (IF compOk THEN <<Call("processor.setProcessing(true)", procOk)>>
             ELSE <<>>)
    ELSE <<Call("component.setActive(false)", compOk),
           Call("processor.setProcessing(false)", procOk)>>

\* the calls of vst3_set_active(active) with the component answering compOk
\* and the processor procOk
SetActiveCalls(active, compOk, procOk) ==
    IF active
    THEN <<Call("component.setActive(true)", compOk)>>
         \o (IF compOk THEN <<Call("processor.setProcessing(true)", procOk)>>
             ELSE <<>>)
    ELSE <<Call("processor.setProcessing(false)", procOk),
           Call("component.setActive(false)", compOk)>>

\* the component and processor after those calls: an accepted call takes
\* effect, a rejected one changes nothing
SetActivePlug(g, active, compOk, procOk) ==
    IF active
    THEN [g EXCEPT !.active = @ \/ compOk,
                   !.processing = @ \/ (compOk /\ procOk)]
    ELSE [g EXCEPT !.processing = @ /\ ~procOk,
                   !.active = @ /\ ~compOk]

SetActiveReturn(active, compOk, procOk) ==
    IF active /\ ~(compOk /\ procOk) THEN -1 ELSE 0

vst3_set_active ==
    /\ pc = "idle"
    /\ \/ NullCall("set_active", -1)
       \/ /\ handle = "valid"
          /\ \E active \in BOOLEAN, compOk \in BOOLEAN, procOk \in BOOLEAN :
               /\ plug' = SetActivePlug(plug, active, compOk, procOk)
               /\ ReturnsFor("set_active", <<IF active THEN 1 ELSE 0>>,
                          SetActiveReturn(active, compOk, procOk),
                          SetActiveCalls(active, compOk, procOk))
          /\ UNCHANGED <<handle, gHostContext, plugin, nextId, shown, dropped,
                         fault, pc>>


(***************************************************************************)
(* vst3_process                                                            *)
(***************************************************************************)
\* a binding that copies one pointer per negotiated channel, however few the
\* caller supplied
BindBusNegotiated(bus, numBuses, supplied, negotiated) ==
    IF supplied > 0 /\ numBuses > 0
    THEN [numChannels |-> supplied, bound |-> 0..(negotiated - 1)]
    ELSE [bus EXCEPT !.bound = {}]

\* lines 339-345 (and 347-353 for the output side): the channel pointers
\* copied from the caller's array and the channel count reported to the
\* plugin, for a bus of the prepared structure
BindBus(bus, numBuses, supplied, negotiated) ==
    IF supplied > 0 /\ numBuses > 0
    THEN [numChannels |-> supplied,
          bound |-> {ch \in 0..(supplied - 1) : ch < negotiated}]
    ELSE [bus EXCEPT !.bound = {}]

\* lines 327-353: the process data handed to the plugin
BindProcessData(p, numSamples, nIn, nOut) ==
    [p.processData EXCEPT
        !.numSamples = numSamples,
        !.attached = TRUE,
        !.inputs = BindBus(@, p.processData.numInputs, nIn, p.num_inputs),
        !.outputs = BindBus(@, p.processData.numOutputs, nOut, p.num_outputs)]

EventIds(q) == {q[i].id : i \in 1..Len(q)}

\* the plugin's process entry point reads the attached input events
Present(sh, q) ==
    [i \in DOMAIN sh |-> IF i \in EventIds(q) THEN Min(sh[i] + 1, 2)
                         ELSE sh[i]]

\* line 361: plugin->inputEvents.clear()
ClearInputEvents(p) == [p EXCEPT !.inputEvents = <<>>]

\* what the plugin may append to its two output queues during one block
OutWrites(p) ==
    {w \in {0, 1} \X {0, 1} :
        p.outputEvents + p.outputParameterChanges + w[1] + w[2] <= MaxOut}

\* a vst3_process that empties the two output queues before each block
AfterProcessOutputsCleared(p, pd, processOk, we, wp) ==
    LET q == [p EXCEPT !.processData = pd, !.outputEvents = we,
                       !.outputParameterChanges = wp]
    IN  IF processOk THEN [q EXCEPT !.inputEvents = <<>>] ELSE q

\* lines 355-363: the VST3Plugin after the plugin's process call returned
\* processOk, having written we output events and wp output parameter changes
AfterProcess(p, pd, processOk, we, wp) ==
    LET q == [p EXCEPT !.processData = pd,
                       !.outputEvents = @ + we,
                       !.outputParameterChanges = @ + wp]
    IN  IF processOk THEN ClearInputEvents(q) ELSE q

\* the events line 361 removes
Cleared(p, processOk) ==
    IF processOk THEN EventIds(p.inputEvents) ELSE {}

\* the channel counts a call supplies: with no bus in the buffer structure
\* lines 339 and 347 skip the binding whatever the count, so one count stands
\* for all
Supplied(numBuses) == IF numBuses > 0 THEN SuppliedChannels ELSE {0}

vst3_process ==
    /\ pc = "idle"
    /\ \/ NullCall("process", -1)
       \/ /\ handle = "valid"
          /\ \E numSamples \in NumSamples,
                nIn \in Supplied(plugin.processData.numInputs),
                nOut \in Supplied(plugin.processData.numOutputs),
                processOk \in BOOLEAN,
                w \in OutWrites(plugin) :
               /\ plugin' = AfterProcess(plugin,
                               BindProcessData(plugin, numSamples, nIn, nOut),
                               processOk, w[1], w[2])
               /\ shown' = Present(shown, plugin.inputEvents)
               /\ dropped' = dropped \cup Cleared(plugin, processOk)
               /\ ReturnsFor("process", <<numSamples, nIn, nOut>>,
                             IF processOk THEN 0 ELSE -1,
                             <<Call("processor.process", processOk)>>)
          /\ UNCHANGED <<handle, gHostContext, plug, nextId, fault, pc>>

\* the audio thread's two steps of vst3_process when the control thread runs
\* beside it: lines 325-358 up to the plugin's return ...
vst3_process_call ==
    /\ pc = "idle"
    /\ handle = "valid"
    /\ \E numSamples \in NumSamples,
          nIn \in Supplied(plugin.processData.numInputs),
          nOut \in Supplied(plugin.processData.numOutputs),
          processOk \in BOOLEAN,
          w \in OutWrites(plugin) :
         /\ plugin' = AfterProcess(plugin,
                         BindProcessData(plugin, numSamples, nIn, nOut),
                         FALSE, w[1], w[2])
         /\ shown' = Present(shown, plugin.inputEvents)
         /\ pc' = IF processOk THEN "clear" ELSE "idle"
         /\ ReturnsFor("process", <<numSamples, nIn, nOut>>,
                       IF processOk THEN 0 ELSE -1,
                       <<Call("processor.process", processOk)>>)
    /\ UNCHANGED <<handle, gHostContext, plug, nextId, dropped, fault>>

\* ... and lines 360-363
vst3_process_clear ==
    /\ pc = "clear"
    /\ plugin' = ClearInputEvents(plugin)
    /\ dropped' = dropped \cup Cleared(plugin, TRUE)
    /\ pc' = "idle"
    /\ UNCHANGED <<handle, gHostContext, plug, lastOp, args, ret, callLog,
                   nextId, shown, fault>>

(***************************************************************************)
(* vst3_send_note_on, vst3_send_note_off, vst3_send_midi_cc,               *)
(* vst3_send_program_change                                                *)
(***************************************************************************)
Event(type, channel, pitch, velocity, cc, value, noteId, offset, id) ==
    [type |-> type, busIndex |-> 0, sampleOffset |-> offset,
     flags |-> "kIsLive", channel |-> channel, pitch |-> pitch,
     velocity |-> velocity, noteId |-> noteId,
     controlNumber |-> cc, value |-> value, id |-> id]

\* velocity / 127.0f, kept as the fraction <<numerator, denominator>>
Normalize(velocity) == <<velocity, VelocityScale>>

NoteOnEvent(channel, note, velocity, offset, id) ==
    Event("kNoteOnEvent", channel, note, Normalize(velocity), 0, 0, NoNoteId,
          offset, id)

NoteOffEvent(channel, note, offset, id) ==
    Event("kNoteOffEvent", channel, note, <<0, 1>>, 0, 0, NoNoteId, offset, id)

MidiCCEvent(channel, cc, value, offset, id) ==
    Event("kLegacyMIDICCOutEvent", channel, 0, <<0, 1>>, cc, value, 0, offset,
          id)

\* a vst3_send_program_change that adds the program event before the bank
\* select
ProgramChangeEventsProgramFirst(channel, program, offset, id) ==
    <<MidiCCEvent(channel, ProgramChangeCC, program, offset, id),
      MidiCCEvent(channel, 0, 0, offset, id + 1)>>

\* the two events of vst3_send_program_change, in the order it adds them
ProgramChangeEvents(channel, program, offset, id) ==
    <<MidiCCEvent(channel, 0, 0, offset, id),
      MidiCCEvent(channel, ProgramChangeCC, program, offset, id + 1)>>

\* plugin->inputEvents.addEvent for each event of evs, from either thread
Send(op, a, evs) ==
    /\ handle = "valid"
    /\ nextId + Len(evs) <= MaxEvents
    /\ plugin' = [plugin EXCEPT !.inputEvents = @ \o evs]
    /\ nextId' = nextId + Len(evs)
    /\ ReturnsFor(op, a, 0, <<>>)
    /\ UNCHANGED <<handle, gHostContext, plug, shown, dropped, fault, pc>>

vst3_send_note_on ==
    \/ pc = "idle" /\ NullCall("send_note_on", -1)
    \/ \E ch \in Channels, note \in Notes, vel \in Velocities,
          off \in Offsets :
         Send("send_note_on", <<ch, note, vel, off>>,
              <<NoteOnEvent(ch, note, vel, off, nextId + 1)>>)

vst3_send_note_off ==
    \/ pc = "idle" /\ NullCall("send_note_off", -1)
    \/ \E ch \in Channels, note \in Notes, off \in LateOffsets :
         Send("send_note_off", <<ch, note, off>>,
              <<NoteOffEvent(ch, note, off, nextId + 1)>>)

vst3_send_midi_cc ==
    \/ pc = "idle" /\ NullCall("send_midi_cc", -1)
    \/ \E ch \in Channels, cc \in Controllers, v \in Values,
          off \in LateOffsets :
         Send("send_midi_cc", <<ch, cc, v, off>>,
              <<MidiCCEvent(ch, cc, v, off, nextId + 1)>>)

vst3_send_program_change ==
    \/ pc = "idle" /\ NullCall("send_program_change", -1)
    \/ \E ch \in ProgramChannels, program \in Programs, off \in Offsets :
         Send("send_program_change", <<ch, program, off>>,
              ProgramChangeEvents(ch, program, off, nextId + 1))


(***************************************************************************)
(* vst3_get_plugin_info, vst3_get_parameter_count,                         *)
(* vst3_get_parameter_info, vst3_get_parameter, vst3_set_parameter         *)
(***************************************************************************)
\* controller->getParameterCount()
ControllerParameterCount == Cardinality(ParamIds)

\* what vst3_get_parameter_count returns
ParameterCount(p) ==
    IF ~p.controller THEN 0 ELSE ControllerParameterCount

\* a vst3_get_parameter that answers 0.0 without asking the controller
GetParameterUnasked(p, g, id) == 0

\* what vst3_get_parameter returns: the controller's normalized value
GetParameter(p, g, id) ==
    IF ~p.controller THEN 0 ELSE g.params[id]

\* the fields vst3_get_plugin_info fills in; the name is the position of the
\* class it found, 0 standing for "Unknown"
PluginInfo(p) ==
    [name |-> FindAudioEffectClass(p.module.classes),
     num_inputs |-> p.num_inputs,
     num_outputs |-> p.num_outputs,
     num_parameters |-> ParameterCount(p),
     sample_rate |-> p.sample_rate]

Query(op, a, r, calls) ==
    /\ handle = "valid"
    /\ ReturnsFor(op, a, r, calls)
    /\ UNCHANGED <<handle, gHostContext, plugin, plug, nextId, shown, dropped,
                   fault, pc>>

ControllerCall(p, name, ok) ==
    IF p.controller THEN <<Call(name, ok)>> ELSE <<>>

vst3_get_plugin_info ==
    /\ pc = "idle"
    /\ \/ NullCall("get_plugin_info", -1)
       \/ \E infoNull \in BOOLEAN :
            Query("get_plugin_info", <<>>, IF infoNull THEN -1 ELSE 0,
                  IF infoNull THEN <<>>
                  ELSE <<Call("factory.classInfos", TRUE)>>
                       \o ControllerCall(plugin,
                                         "controller.getParameterCount", TRUE))

vst3_get_parameter_count ==
    /\ pc = "idle"
    /\ \/ NullCall("get_parameter_count", 0)
       \/ Query("get_parameter_count", <<>>, ParameterCount(plugin),
                ControllerCall(plugin, "controller.getParameterCount", TRUE))

vst3_get_parameter_info ==
    /\ pc = "idle"
    /\ \/ NullCall("get_parameter_info", -1)
       \/ \E index \in 0..ControllerParameterCount :
            LET found == index < ControllerParameterCount IN
            Query("get_parameter_info", <<index>>,
                  IF plugin.controller /\ found THEN 0 ELSE -1,
                  ControllerCall(plugin, "controller.getParameterInfo", found))

vst3_get_parameter ==
    /\ pc = "idle"
    /\ \/ NullCall("get_parameter", 0)
       \/ \E id \in ParamIds :
            Query("get_parameter", <<id>>, GetParameter(plugin, plug, id),
                  ControllerCall(plugin, "controller.getParamNormalized",
                                 TRUE))

\* the controller's value store after vst3_set_parameter(id, value), the
\* controller answering accepted
SetParameterPlug(p, g, id, value, accepted) ==
    IF p.controller /\ accepted
    THEN [g EXCEPT !.params[id] = value]
    ELSE g

\* a vst3_set_parameter that also queues the accepted value as an input
\* parameter change for the next block
SetParameterPluginQueued(p, id, value, accepted) ==
    IF p.controller /\ accepted
    THEN [p EXCEPT !.inputParameterChanges = Min(@ + 1, 1)]
    ELSE p

\* the VST3Plugin after vst3_set_parameter: lines 250-266 store nothing in
\* the instance, the value goes to the controller only
SetParameterPlugin(p, id, value, accepted) == p

\* what vst3_set_parameter returns
SetParameterReturn(p, accepted) ==
    IF p.controller /\ accepted THEN 0 ELSE -1

vst3_set_parameter ==
    /\ pc = "idle"
    /\ \/ NullCall("set_parameter", -1)
       \/ /\ handle = "valid"
          /\ \E id \in ParamIds, value \in ParamValues, accepted \in BOOLEAN :
               /\ plug' = SetParameterPlug(plugin, plug, id, value, accepted)
               /\ plugin' = SetParameterPlugin(plugin, id, value, accepted)
               /\ ReturnsFor("set_parameter", <<id, value>>,
                          SetParameterReturn(plugin, accepted),
                          ControllerCall(plugin,
                                         "controller.setParamNormalized",
                                         accepted))
          /\ UNCHANGED <<handle, gHostContext, nextId, shown, dropped, fault,
                         pc>>

(***************************************************************************)
(* vst3_unload_plugin                                                      *)
(***************************************************************************)
\* lines 468-477: the disconnects, for the component and controller fields
\* as the function reads them; st are the statuses the plugin answers
DisconnectCalls(component, controller, g, st) ==
    IF component /\ controller
    THEN <<Call("component.queryInterface<IConnectionPoint>", g.compCP),
           Call("controller.queryInterface<IConnectionPoint>", g.ctrlCP)>>
         \o (IF g.compCP /\ g.ctrlCP
             THEN <<Call("component.disconnect", st.dAB),
                    Call("controller.disconnect", st.dBA)>>
             ELSE <<>>)
    ELSE <<>>

\* TerminateCalls with the component terminated before the controller
TerminateCallsComponentFirst(component, controller, st) ==
    (IF component THEN <<Call("component.terminate", st.tC)>> ELSE <<>>)
    \o (IF controller THEN <<Call("controller.terminate", st.tK)>> ELSE <<>>)

\* lines 479-488: the terminates
TerminateCalls(component, controller, st) ==
    (IF controller THEN <<Call("controller.terminate", st.tK)>> ELSE <<>>)
    \o (IF component THEN <<Call("component.terminate", st.tC)>> ELSE <<>>)

\* lines 490-491: the processor and module references are dropped
ReleaseCalls(module) ==
    IF module THEN <<Call("module.release", TRUE)>> ELSE <<>>

\* every call of vst3_unload_plugin on a non-null handle, in order
UnloadCalls(component, controller, module, g, st) ==
    DisconnectCalls(component, controller, g, st)
    \o TerminateCalls(component, controller, st)
    \o ReleaseCalls(module)

\* the plugin-side objects after those calls
UnloadPlug(component, controller, module, g) ==
    [g EXCEPT
        !.connAB = @ /\ ~(component /\ controller /\ g.compCP /\ g.ctrlCP),
        !.connBA = @ /\ ~(component /\ controller /\ g.compCP /\ g.ctrlCP),
        !.ctrlTerminates = IF controller THEN Min(@ + 1, 2) ELSE @,
        !.compTerminates = IF component THEN Min(@ + 1, 2) ELSE @,
        !.moduleReleases = IF module THEN Min(@ + 1, 2) ELSE @,
        !.active = @ /\ ~component,
        !.processing = @ /\ ~component]

UnloadStatuses == [dAB : BOOLEAN, dBA : BOOLEAN, tK : BOOLEAN, tC : BOOLEAN]

\* the statuses that can differ, given which calls are made
UnloadAsked(component, controller, g, st) ==
    /\ (component /\ controller /\ g.compCP /\ g.ctrlCP)
          \/ (st.dAB /\ st.dBA)
    /\ controller \/ st.tK
    /\ component \/ st.tC

vst3_unload_plugin ==
    /\ pc = "idle"
    /\ \/ /\ handle = "null"
          /\ Returns("unload", 0, <<>>)
          /\ UNCHANGED <<handle, gHostContext, plugin, plug, nextId, shown,
                         dropped, fault, pc>>
       \/ /\ handle = "valid"
          /\ \E st \in UnloadStatuses :
               /\ UnloadAsked(plugin.component, plugin.controller, plug, st)
               /\ plug' = UnloadPlug(plugin.component, plugin.controller,
                                     plugin.module.loaded, plug)
               /\ Returns("unload", 0,
                          UnloadCalls(plugin.component, plugin.controller,
                                      plugin.module.loaded, plug, st))
          \* delete plugin: the handle the caller holds now dangles
          /\ handle' = "dangling"
          /\ plugin' = VST3Plugin
          /\ UNCHANGED <<gHostContext, nextId, shown, dropped, fault, pc>>
       \* a second call on the same handle reads the freed VST3Plugin: each of
       \* its three references may read as null or as the stale pointer, and
       \* the structure is freed again
       \/ /\ handle = "dangling"
          /\ ~fault
          /\ \E component \in BOOLEAN, controller \in BOOLEAN,
                module \in BOOLEAN, st \in UnloadStatuses :
               /\ UnloadAsked(component, controller, plug, st)
               /\ plug' = UnloadPlug(component, controller, module, plug)
               /\ Returns("unload", 0,
                          UnloadCalls(component, controller, module, plug,
                                      st))
          /\ fault' = TRUE
          /\ UNCHANGED <<handle, gHostContext, plugin, nextId, shown, dropped,
                         pc>>

(***************************************************************************)
(* Specifications.                                                         *)
(***************************************************************************)
Init ==
    /\ handle = "null"
    /\ gHostContext = FALSE
    /\ plugin = VST3Plugin
    /\ plug = NoPlug
    /\ lastOp = "none"
    /\ args = <<>>
    /\ ret = 0
    /\ callLog = <<>>
    /\ nextId = 0
    /\ shown = [i \in 1..MaxEvents |-> 0]
    /\ dropped = {}
    /\ fault = FALSE
    /\ pc = "idle"

\* loading, querying, setting parameters and unloading: every answer the
\* binary can give during a load
Next ==
    \/ vst3_load_plugin
    \/ vst3_get_plugin_info
    \/ vst3_get_parameter_count
    \/ vst3_get_parameter_info
    \/ vst3_get_parameter
    \/ vst3_set_parameter
    \/ vst3_unload_plugin

Spec == Init /\ [][Next]_vars

\* the state right after vst3_load_plugin(path) returned, for a binary that
\* answers env
InitLoaded(paths, envs) ==
    \E path \in paths, env \in envs \cup {DefaultEnv} :
        LET out == LoadOutcome(path, env) IN
        /\ path = "good" \/ env = DefaultEnv
        /\ handle = out.handle
        /\ gHostContext = TRUE
        /\ plugin = out.plugin
        /\ plug = out.plug
        /\ lastOp = "load"
        /\ args = <<path>>
        /\ ret = out.ret
        /\ callLog = out.calls
        /\ nextId = 0
        /\ shown = [i \in 1..MaxEvents |-> 0]
        /\ dropped = {}
        /\ fault = FALSE
        /\ pc = "idle"

\* binaries with one audio-effect class that load without a hitch
GoodEnvs ==
    {env \in LoadEnvs :
        /\ env.classes = <<kVstAudioEffectClass>>
        /\ LoadStage("good", env) = "ok"
        /\ env.cidOk => env.ctrlCreateOk
        /\ env.ctrlInitOk /\ env.compCP /\ env.ctrlCP
        /\ env.connABOk /\ env.connBAOk}

\* ... of every bus layout, with a connected controller
BusEnvs == {env \in GoodEnvs : env.cidOk}

\* ... with and without a controller, stereo in and out
StereoEnvs ==
    {env \in GoodEnvs :
        /\ env.inCh > 0 /\ env.inInfoOk
        /\ env.outCh > 0 /\ env.outInfoOk}

\* configuring, activating and processing a loaded instance
NextProcess ==
    \/ vst3_setup_processing
    \/ vst3_set_active
    \/ vst3_process

SpecProcess == InitLoaded({"bad", "good"}, BusEnvs) /\ [][NextProcess]_vars

\* submitting events to a loaded instance between blocks
NextEvents ==
    \/ vst3_send_note_on
    \/ vst3_send_note_off
    \/ vst3_send_midi_cc
    \/ vst3_send_program_change
    \/ vst3_process

SpecEvents == InitLoaded({"bad", "good"}, StereoEnvs) /\ [][NextEvents]_vars

\* a control thread submitting events while the audio thread is inside
\* vst3_process
NextThreads ==
    \/ vst3_send_note_on
    \/ vst3_send_note_off
    \/ vst3_send_midi_cc
    \/ vst3_send_program_change
    \/ vst3_process_call
    \/ vst3_process_clear

SpecThreads == InitLoaded({"bad", "good"}, StereoEnvs) /\ [][NextThreads]_vars

\* setting parameters and submitting control changes on an instance that is
\* being activated and processed
NextParameters ==
    \/ vst3_set_parameter
    \/ vst3_send_midi_cc
    \/ vst3_set_active
    \/ vst3_process

SpecParameters == InitLoaded({"good"}, StereoEnvs) /\ [][NextParameters]_vars

(***************************************************************************)
(* Properties.                                                             *)
(***************************************************************************)
\* the call name was made with status ok, in the log
LoggedIn(log, name, ok) == \E i \in DOMAIN log : log[i] = Call(name, ok)

Logged(name, ok) == LoggedIn(callLog, name, ok)

\* the call was made, whatever it answered
CalledIn(log, name) == \E i \in DOMAIN log : log[i][1] = name

\* the position of the call in a log, 0 when it was not made
PosIn(log, name) ==
    IF CalledIn(log, name)
    THEN CHOOSE i \in DOMAIN log : log[i][1] = name /\
                                   \A j \in 1..(i - 1) : log[j][1] # name
    ELSE 0

\* the instance is certainly not Active: processing setup never succeeded,
\* or the component is not active, or processing is not enabled
NotActive == plug.setups = 0 \/ ~plug.active \/ ~plug.processing

\* C1: a process call made while the instance is not Active returns an error
\* status and does not invoke the plugin's block-processing entry point.
C1_ProcessGuardedWhenNotActive ==
    (handle = "valid" /\ lastOp = "process" /\ NotActive)
        => (ret = -1 /\ ~CalledIn(callLog, "processor.process"))

\* C2: calling unload twice on the same handle never reads or frees the
\* already freed instance, and the controller terminate, the component
\* terminate and the module release each happen at most once.
C2_UnloadTwiceSafe ==
    /\ ~fault
    /\ plug.ctrlTerminates <= 1
    /\ plug.compTerminates <= 1
    /\ plug.moduleReleases <= 1

\* C3: after every process call returns, whether the plugin's processing call
\* succeeded or failed, the input event queue is empty.
C3_InputEventsEmptyAfterProcess ==
    (handle = "valid" /\ lastOp = "process") => plugin.inputEvents = <<>>

\* C4: a setActive(true) that fails on an instance that was not active leaves
\* the component not active and processing not enabled.
C4_FailedActivationLeavesConfigured ==
    [][(/\ handle = "valid"
        /\ ~plug.active /\ ~plug.processing
        /\ lastOp' = "set_active" /\ ret' = -1)
       => (~plug'.active /\ ~plug'.processing)]_vars

\* C5: with events submitted while the audio thread is inside process, no
\* event is removed from the input queue without having been visible to a
\* plugin processing call, and no event is visible to two processing calls.
C5_EachEventPresentedOnce ==
    \A i \in 1..MaxEvents :
        /\ i \in dropped => shown[i] >= 1
        /\ shown[i] <= 1

\* C6: a setupProcessing call made while the instance is Active, or after an
\* earlier setupProcessing succeeded, does not apply the setup to the
\* processor again and does not prepare the buffer structure again.
C6_SetupAppliedOnce ==
    [][(/\ handle = "valid"
        /\ lastOp' = "setup_processing"
        /\ plug.setups >= 1 \/ (plug.active /\ plug.processing))
       => (/\ plug'.setups = plug.setups
           /\ plugin'.processData.prepares = plugin.processData.prepares)]_vars

\* C7: load returns a non-null handle whenever the module loads, an
\* audio-effect class is found, the component is created and initialized and
\* the processor interface is available, whatever the controller class id,
\* the controller's creation and initialization and the connections answer.
C7_LoadSucceedsDespiteDegradation ==
    (/\ lastOp = "load"
     /\ Logged("Module::create", TRUE)
     /\ Logged("factory.classInfos", TRUE)
     /\ Logged("createInstance<IComponent>", TRUE)
     /\ Logged("component.initialize", TRUE)
     /\ Logged("component.queryInterface<IAudioProcessor>", TRUE))
        => (/\ handle = "valid" /\ ret = 1
            /\ plugin.component /\ plugin.processor /\ plugin.module.loaded)

\* a load that returned a handle although the controller failed to
\* initialize and both connects failed
C7_Witness ==
    /\ lastOp = "load" /\ handle = "valid"
    /\ Logged("controller.initialize", FALSE)
    /\ Logged("component.connect", FALSE)
    /\ Logged("controller.connect", FALSE)

\* C8: when the controller is created but its initialize fails during load,
\* the instance holds no controller, no connection is attempted,
\* getParameterCount reports 0, getParameter returns 0.0 and setParameter is
\* rejected.
C8_ControllerInitFailureIsControllerless ==
    (lastOp = "load" /\ handle = "valid"
     /\ Logged("controller.initialize", FALSE))
        => (/\ ~plugin.controller
            /\ ~CalledIn(callLog, "component.connect")
            /\ ~CalledIn(callLog, "controller.connect")
            /\ ParameterCount(plugin) = 0
            /\ \A id \in ParamIds : GetParameter(plugin, plug, id) = 0
            /\ \A accepted \in BOOLEAN :
                   SetParameterReturn(plugin, accepted) = -1)

\* the load made no call, or got a fatal answer
FatalAnswer ==
    \/ callLog = <<>>
    \/ Logged("Module::create", FALSE)
    \/ Logged("factory.classInfos", FALSE)
    \/ Logged("createInstance<IComponent>", FALSE)
    \/ Logged("component.initialize", FALSE)
    \/ Logged("component.queryInterface<IAudioProcessor>", FALSE)

\* C9: load returns null and leaves no instance on each fatal failure; after
\* a component-initialize failure nothing further is called on the plugin;
\* after a processor-interface failure the component is terminated exactly
\* once and nothing else is called.
C9_FatalLoadFailuresReturnNull ==
    (lastOp = "load" /\ FatalAnswer)
        => (/\ handle = "null" /\ ret = 0 /\ plugin = VST3Plugin
            /\ ~CalledIn(callLog, "createInstance<IEditController>")
            /\ Logged("component.initialize", FALSE)
                  => (/\ callLog[Len(callLog)]
                            = Call("component.initialize", FALSE)
                      /\ plug.compTerminates = 0)
            /\ Logged("component.queryInterface<IAudioProcessor>", FALSE)
                  => (/\ callLog[Len(callLog)]
                            = Call("component.terminate", TRUE)
                      /\ PosIn(callLog, "component.terminate")
                            = Len(callLog)
                      /\ callLog[Len(callLog) - 1]
                            = Call("component.queryInterface<IAudioProcessor>",
                                   FALSE)
                      /\ plug.compTerminates = 1)
            /\ ~Logged("component.queryInterface<IAudioProcessor>", FALSE)
                  => ~CalledIn(callLog, "component.terminate"))

\* a load that failed for want of the processor interface and terminated the
\* component
C9_Witness ==
    /\ lastOp = "load" /\ handle = "null"
    /\ Logged("component.queryInterface<IAudioProcessor>", FALSE)
    /\ plug.compTerminates = 1

\* C10: unload of a live instance disconnects both directions before either
\* interface is terminated, terminates the controller before the component,
\* and releases the module last, whatever the earlier steps answered.
C10_UnloadOrder ==
    [][(handle = "valid" /\ handle' = "dangling")
       => LET log == callLog'
              at(name) == PosIn(log, name)
              connectable == plugin.controller /\ plug.compCP /\ plug.ctrlCP
          IN  /\ at("component.terminate") > 0
              /\ plugin.controller
                    => (/\ at("controller.terminate") > 0
                        /\ at("controller.terminate")
                              < at("component.terminate"))
              /\ connectable
                    => (/\ at("component.disconnect") > 0
                        /\ at("component.disconnect")
                              < at("controller.disconnect")
                        /\ at("controller.disconnect")
                              < at("controller.terminate"))
              /\ ~connectable
                    => (/\ at("component.disconnect") = 0
                        /\ at("controller.disconnect") = 0)
              /\ ~plugin.controller => at("controller.terminate") = 0
              /\ at("module.release") = Len(log)
              /\ plug'.compTerminates = 1
              /\ plug'.moduleReleases = 1]_vars

\* an unload in which both disconnects and the controller's terminate
\* answered failure and the component was still terminated and the module
\* released
C10_Witness ==
    /\ lastOp = "unload" /\ handle = "dangling" /\ ~fault
    /\ Logged("component.disconnect", FALSE)
    /\ Logged("controller.disconnect", FALSE)
    /\ Logged("controller.terminate", FALSE)
    /\ CalledIn(callLog, "component.terminate")
    /\ Logged("module.release", TRUE)

\* C11: a deactivation turns the processing off before it deactivates the
\* component; an activation activates the component before it enables the
\* processing, and does not enable the processing at all when the component
\* rejected the activation.
C11_SetActiveOrder ==
    [][(handle = "valid" /\ lastOp' = "set_active")
          => LET log == callLog'
                 at(name) == PosIn(log, name)
             IN  /\ args' = <<0>>
                       => (/\ Len(log) = 2
                           /\ at("processor.setProcessing(false)") = 1
                           /\ at("component.setActive(false)") = 2)
                 /\ args' = <<1>>
                       => (/\ at("component.setActive(true)") = 1
                           /\ LoggedIn(log, "component.setActive(true)", TRUE)
                                 => (at("processor.setProcessing(true)") = 2
                                     /\ Len(log) = 2)
                           /\ LoggedIn(log, "component.setActive(true)", FALSE)
                                 => (/\ Len(log) = 1
                                     /\ plug'.processing = plug.processing
                                     /\ plug'.active = plug.active))]_vars

\* a deactivation of a running instance in which the processor refused to
\* stop and the component was deactivated after it
C11_Witness ==
    /\ handle = "valid" /\ lastOp = "set_active" /\ args = <<0>>
    /\ callLog = <<Call("processor.setProcessing(false)", FALSE),
                   Call("component.setActive(false)", TRUE)>>
    /\ plug.processing /\ ~plug.active

\* C12: vst3_send_program_change on a valid handle appends exactly two legacy
\* MIDI CC events behind the events already queued, both on the given channel
\* at the given offset: controller 0 with value 0 first, controller 32 with
\* the program number as its value second.
C12_ProgramChangeAppendsTwoCCs ==
    [][(handle = "valid" /\ lastOp' = "send_program_change")
          => LET old == plugin.inputEvents
                 new == plugin'.inputEvents
                 n == Len(old)
             IN  /\ ret' = 0
                 /\ Len(new) = n + 2
                 /\ SubSeq(new, 1, n) = old
                 /\ \A i \in {n + 1, n + 2} :
                       /\ new[i].type = "kLegacyMIDICCOutEvent"
                       /\ new[i].channel = args'[1]
                       /\ new[i].sampleOffset = args'[3]
                 /\ new[n + 1].controlNumber = 0
                 /\ new[n + 1].value = 0
                 /\ new[n + 2].controlNumber = 32
                 /\ new[n + 2].value = args'[2]]_vars

\* a program change to program 9 on channel 1 at offset 10 queued behind an
\* event that was already waiting
C12_Witness ==
    /\ handle = "valid" /\ lastOp = "send_program_change"
    /\ args = <<1, 9, 10>>
    /\ Len(plugin.inputEvents) = 3
    /\ plugin.inputEvents[1].type = "kNoteOnEvent"

\* C13: on an instance with a controller, a vst3_get_parameter(id) that
\* directly follows an accepted vst3_set_parameter(id, v) returns v; on an
\* instance without a controller vst3_set_parameter is rejected and
\* vst3_get_parameter returns 0.0 whatever was set before.
C13_ParameterRoundTrip ==
    [][/\ (/\ handle = "valid"
            /\ lastOp = "set_parameter" /\ lastOp' = "get_parameter"
            /\ args'[1] = args[1]
            /\ plugin.controller /\ ret = 0)
          => ret' = args[2]
       /\ (handle = "valid" /\ ~plugin.controller /\ lastOp' = "set_parameter")
          => ret' = -1
       /\ (handle = "valid" /\ ~plugin.controller /\ lastOp' = "get_parameter")
          => ret' = 0]_vars

\* parameter 2 read back as 1.0 right after it was set to 1.0, parameter 1
\* holding another value
C13_Witness ==
    /\ handle = "valid" /\ plugin.controller
    /\ lastOp = "get_parameter" /\ args = <<2>> /\ ret = 10
    /\ plug.params[1] = 5

\* C14: the component of a loaded instance is made from the first class, in
\* the factory's order, whose category is the audio effect category, and
\* vst3_get_plugin_info reports the name of that class; a load that finds no
\* such class returns null and asks for no component.
C14_FirstAudioEffectClassChosen ==
    /\ handle = "valid"
          => LET classes == plugin.module.classes
                 chosen == plug.compClass
             IN  /\ chosen \in DOMAIN classes
                 /\ classes[chosen] = "Audio Module Class"
                 /\ \A j \in 1..(chosen - 1) :
                       classes[j] # "Audio Module Class"
                 /\ PluginInfo(plugin).name = chosen
    /\ (lastOp = "load" /\ Logged("factory.classInfos", FALSE))
          => (/\ handle = "null"
              /\ ret = 0
              /\ ~CalledIn(callLog, "createInstance<IComponent>")
              /\ plug.compClass = 0)

\* the information of an instance read from a module whose two classes are
\* both audio effects
C14_Witness ==
    /\ handle = "valid" /\ lastOp = "get_plugin_info" /\ ret = 0
    /\ plugin.module.classes = <<"Audio Module Class", "Audio Module Class">>
    /\ plug.compClass = 1

\* C15: a process call reads the caller's channel pointers only at indices
\* below the channel count the caller supplied for that direction, also when
\* the negotiated channel count is larger.
C15_PointersReadBelowSuppliedCount ==
    (handle = "valid" /\ lastOp = "process")
        => (/\ \A ch \in plugin.processData.inputs.bound : ch < args[2]
            /\ \A ch \in plugin.processData.outputs.bound : ch < args[3])

\* a block with one input and one output channel supplied to an instance
\* that negotiated two of each
C15_Witness ==
    /\ handle = "valid" /\ lastOp = "process" /\ args = <<64, 1, 1>>
    /\ plugin.num_inputs = 2 /\ plugin.num_outputs = 2
    /\ plugin.processData.inputs.bound = {0}
    /\ plugin.processData.outputs.bound = {0}

\* C16: the channel count a process call reports to the plugin for a bus is
\* at most the negotiated channel count of the bus and at most the number of
\* channel pointers bound in this call, also when the caller passes a larger
\* count than the negotiated one.
C16_ReportedChannelsWithinBound ==
    (handle = "valid" /\ lastOp = "process")
        => (/\ (plugin.processData.numInputs > 0 /\ args[2] > 0)
                  => (/\ plugin.processData.inputs.numChannels
                            <= plugin.num_inputs
                      /\ plugin.processData.inputs.numChannels
                            <= Cardinality(plugin.processData.inputs.bound))
            /\ (plugin.processData.numOutputs > 0 /\ args[3] > 0)
                  => (/\ plugin.processData.outputs.numChannels
                            <= plugin.num_outputs
                      /\ plugin.processData.outputs.numChannels
                            <= Cardinality(plugin.processData.outputs.bound)))

\* C17: a vst3_setup_processing that fails because the processor rejected the
\* setup leaves the cached sample rate, as vst3_get_plugin_info reports it,
\* and the cached maximum block size as they were, and does not prepare the
\* buffer structure.
C17_FailedSetupChangesNothing ==
    [][(handle = "valid" /\ lastOp' = "setup_processing" /\ ret' = -1)
          => (/\ PluginInfo(plugin').sample_rate = PluginInfo(plugin).sample_rate
              /\ plugin'.max_block_size = plugin.max_block_size
              /\ plugin'.processData = plugin.processData)]_vars

\* the calls of vst3_load_plugin that create, initialize, query or connect the
\* controller
OnController ==
    {"createInstance<IEditController>", "controller.initialize",
     "controller.queryInterface<IConnectionPoint>", "component.connect",
     "controller.connect"}

\* C18: in every load, each call that creates, initializes, queries or
\* connects the controller comes after the component's initialize returned
\* success and after the component gave its processor interface.
C18_ControllerAfterComponentReady ==
    lastOp = "load"
        => (/\ \A i \in DOMAIN callLog :
                  callLog[i][1] \in OnController
                    => (/\ \E j \in 1..(i - 1) :
                              callLog[j] = Call("component.initialize", TRUE)
                        /\ \E k \in 1..(i - 1) :
                              callLog[k]
                                = Call("component.queryInterface<IAudioProcessor>",
                                       TRUE))
            /\ plug.ctrlInit => plug.compInit)

\* a load that created, initialized and connected a controller
C18_Witness ==
    /\ lastOp = "load" /\ handle = "valid" /\ plugin.controller
    /\ Logged("controller.initialize", TRUE)
    /\ Logged("component.connect", TRUE)
    /\ Logged("controller.connect", TRUE)

\* C19: no operation of the host adds an entry to the input parameter-change
\* queue: whatever parameters were set and events sent before, the queue
\* attached to a process call is empty.
C19_InputParameterChangesEmpty ==
    handle = "valid"
        => (/\ plugin.inputParameterChanges = 0
            /\ lastOp = "process" => plugin.processData.attached)

\* a block processed by an activated instance after parameter 1 was set to
\* 0.5 and a control change was sent
C19_Witness ==
    /\ handle = "valid" /\ lastOp = "process" /\ ret = 0
    /\ plugin.controller /\ plug.params[1] = 5
    /\ plug.active /\ plug.processing
    /\ dropped # {}
    /\ plugin.processData.attached

\* C20: the host never removes an entry from the output event queue or the
\* output parameter-change queue, so what the plugin wrote in one block is
\* still in the queues of every later block; the input event queue is the
\* only queue a process call clears.
C20_OutputQueuesNeverCleared ==
    [][(handle = "valid" /\ handle' = "valid")
          => (/\ plugin'.outputEvents >= plugin.outputEvents
              /\ plugin'.outputParameterChanges
                    >= plugin.outputParameterChanges
              /\ (lastOp' = "process" /\ ret' = 0)
                    => plugin'.inputEvents = <<>>)]_vars

\* the second block of an instance, which presented the first input event
\* again and cleared it, with an entry of the plugin in the output event
\* queue
C20_Witness ==
    /\ handle = "valid" /\ lastOp = "process" /\ ret = 0
    /\ plugin.outputEvents = 1
    /\ shown[1] = 2 /\ dropped = {1}
    /\ plugin.inputEvents = <<>>

=============================================================================
